---- MODULE Spec2Model ----
(***************************************************************************)
(* Model of the scoring engine of evals/openai_evals/scorers:              *)
(* chord_scorer.py, key_scorer.py and content_scorer.py.                   *)
(*                                                                         *)
(* Python strings are modelled as sequences of one-character strings, so   *)
(* that replace / upper / lower / strip are computed as Python computes    *)
(* them.  Floats are modelled as exact fractions [n, d].                   *)
(***************************************************************************)
EXTENDS Integers, Sequences, FiniteSets, TLC

\* ------------------------------------------------------------------------
\* Bounds of the model
\* ------------------------------------------------------------------------
\* elements in the part of a score given to the chord scorer
MaxEvents == 3
\* largest min_chords an expectation asks for
MaxMinChords == 4
\* parts of a score given to the content scorer
MaxParts == 3
\* chords in a score of the two-copy specification
MaxPairChords == 3
\* events in the part of a score of the one-part specification
MaxPartEvents == 2
\* events in each part of a score of the chord-extraction specification
MaxExtractEvents == 2

\* ------------------------------------------------------------------------
\* Python str primitives
\* ------------------------------------------------------------------------
LowerChars == <<"a","b","c","d","e","f","g","h","i","j","k","l","m",
                "n","o","p","q","r","s","t","u","v","w","x","y","z">>
UpperChars == <<"A","B","C","D","E","F","G","H","I","J","K","L","M",
                "N","O","P","Q","R","S","T","U","V","W","X","Y","Z">>

SHARP == "sharp-glyph"
FLAT == "flat-glyph"

IndexIn(c, chars) ==
    IF \E i \in 1..Len(chars) : chars[i] = c
    THEN CHOOSE i \in 1..Len(chars) : chars[i] = c
    ELSE 0

UpperChar(c) == IF IndexIn(c, LowerChars) > 0 THEN UpperChars[IndexIn(c, LowerChars)] ELSE c
LowerChar(c) == IF IndexIn(c, UpperChars) > 0 THEN LowerChars[IndexIn(c, UpperChars)] ELSE c

StrUpper(s) == [i \in 1..Len(s) |-> UpperChar(s[i])]
StrLower(s) == [i \in 1..Len(s) |-> LowerChar(s[i])]

StartsWith(s, old) ==
    /\ Len(old) <= Len(s)
    /\ \A i \in 1..Len(old) : s[i] = old[i]

RECURSIVE StrReplace(_, _, _)
StrReplace(s, old, new) ==
    IF Len(s) = 0 THEN << >>
    ELSE IF StartsWith(s, old)
         THEN new \o StrReplace(SubSeq(s, Len(old) + 1, Len(s)), old, new)
         ELSE <<s[1]>> \o StrReplace(Tail(s), old, new)

RECURSIVE StrStrip(_)
StrStrip(s) ==
    IF Len(s) = 0 THEN s
    ELSE IF s[1] = " " THEN StrStrip(Tail(s))
    ELSE IF s[Len(s)] = " " THEN StrStrip(SubSeq(s, 1, Len(s) - 1))
    ELSE s

Contains(s, c) == \E i \in 1..Len(s) : s[i] = c

\* ------------------------------------------------------------------------
\* key_scorer.py : normalize_key_name, keys_match
\* ------------------------------------------------------------------------
replacements ==
    << << <<"#">>, <<SHARP>> >>,
       << <<"b">>, <<FLAT>> >>,
       << <<"s","h","a","r","p">>, <<SHARP>> >>,
       << <<"f","l","a","t">>, <<FLAT>> >> >>

RECURSIVE ApplyReplacements(_, _)
ApplyReplacements(s, i) ==
    IF i > Len(replacements) THEN s
    ELSE ApplyReplacements(StrReplace(s, replacements[i][1], replacements[i][2]), i + 1)

normalize_key_name(key_name) == StrStrip(ApplyReplacements(key_name, 1))

enharmonics ==
    { << <<"C", SHARP>>, <<"D", FLAT>> >>,
      << <<"D", FLAT>>, <<"C", SHARP>> >>,
      << <<"D", SHARP>>, <<"E", FLAT>> >>,
      << <<"E", FLAT>>, <<"D", SHARP>> >>,
      << <<"F", SHARP>>, <<"G", FLAT>> >>,
      << <<"G", FLAT>>, <<"F", SHARP>> >>,
      << <<"G", SHARP>>, <<"A", FLAT>> >>,
      << <<"A", FLAT>>, <<"G", SHARP>> >>,
      << <<"A", SHARP>>, <<"B", FLAT>> >>,
      << <<"B", FLAT>>, <<"A", SHARP>> >> }

InEnharmonics(k) == \E e \in enharmonics : e[1] = k
EnharmonicOf(k) == (CHOOSE e \in enharmonics : e[1] = k)[2]

MAJOR_SUFFIX == <<" ","M","A","J","O","R">>
MINOR_SUFFIX == <<" ","M","I","N","O","R">>

CleanKey(norm) == StrReplace(StrReplace(norm, MAJOR_SUFFIX, << >>), MINOR_SUFFIX, << >>)

EnharmonicLoopSidesOnlyDetected(detected_norm, expected_norm) == <<detected_norm>>

EnharmonicLoopSides(detected_norm, expected_norm) == <<detected_norm, expected_norm>>

keys_match(detected, expected) ==
    LET detected_norm == StrUpper(normalize_key_name(detected))
        expected_norm == StrUpper(normalize_key_name(expected))
        sides == EnharmonicLoopSides(detected_norm, expected_norm)
    IN  IF detected_norm = expected_norm THEN TRUE
        ELSE \E i \in 1..Len(sides) :
                LET clean == CleanKey(sides[i])
                IN  /\ InEnharmonics(clean)
                    /\ EnharmonicOf(clean) \in {detected_norm, expected_norm}

\* ------------------------------------------------------------------------
\* Key names the key matcher is applied to
\* ------------------------------------------------------------------------
Letters == {"C", "D", "E", "F", "G", "A", "B"}
AsciiAccidentals == {"#", "b"}
GlyphAccidentals == {SHARP, FLAT}
STR_MAJOR == <<"m","a","j","o","r">>
STR_MINOR == <<"m","i","n","o","r">>
Qualifiers == { << >>, <<" ">> \o STR_MAJOR, <<" ">> \o STR_MINOR }

\* the ten names of the enharmonic table, in ASCII and in glyph spelling
SharpLetters == {"C", "D", "F", "G", "A"}
FlatLetters == {"D", "E", "G", "A", "B"}
TableNames ==
    { <<l, a>> : l \in SharpLetters, a \in {"#", SHARP} }
    \cup { <<l, a>> : l \in FlatLetters, a \in {"b", FLAT} }
NaturalNames == { <<"C">>, <<"D">> }
KeyNames == { t \o q : t \in TableNames \cup NaturalNames, q \in Qualifiers }

\* the pitch class (0..11) a correctly spelled name denotes; used to state
\* which names are enharmonic partners, independently of keys_match
LetterPc(l) ==
    CASE l = "C" -> 0 [] l = "D" -> 2 [] l = "E" -> 4 [] l = "F" -> 5
      [] l = "G" -> 7 [] l = "A" -> 9 [] l = "B" -> 11
TonicOf(name) == IF Len(name) >= 2 /\ name[2] \in AsciiAccidentals \cup GlyphAccidentals
                 THEN SubSeq(name, 1, 2) ELSE SubSeq(name, 1, 1)
QualifierOf(name) == SubSeq(name, Len(TonicOf(name)) + 1, Len(name))
PitchClass(name) ==
    LET t == TonicOf(name)
    IN  IF Len(t) = 1 THEN LetterPc(t[1])
        ELSE IF t[2] \in {"#", SHARP} THEN (LetterPc(t[1]) + 1) % 12
        ELSE (LetterPc(t[1]) + 11) % 12
IsTablePartner(a, b) ==
    /\ TonicOf(a) \in TableNames /\ TonicOf(b) \in TableNames
    /\ PitchClass(a) = PitchClass(b)
    /\ (TonicOf(a)[2] \in {"#", SHARP}) # (TonicOf(b)[2] \in {"#", SHARP})

\* ------------------------------------------------------------------------
\* Python values of the output / expected mappings
\* ------------------------------------------------------------------------
PyInt(i) == [t |-> "int", i |-> i, s |-> << >>, b |-> FALSE]
PyStr(s) == [t |-> "str", i |-> 0, s |-> s, b |-> FALSE]
PyBool(b) == [t |-> "bool", i |-> 0, s |-> << >>, b |-> b]
PyNone == [t |-> "none", i |-> 0, s |-> << >>, b |-> FALSE]
PyList == [t |-> "list", i |-> 0, s |-> << >>, b |-> FALSE]

\* str(v), as an f-string formats it
PyFormat(v) ==
    CASE v.t = "str" -> v.s
      [] v.t = "none" -> <<"N","o","n","e">>
      [] v.t = "bool" -> IF v.b THEN <<"T","r","u","e">> ELSE <<"F","a","l","s","e">>
      [] v.t = "list" -> <<"[","]">>
      [] OTHER -> <<"i","n","t">>

\* bool(v)
Truthy(v) ==
    CASE v.t = "int" -> v.i # 0
      [] v.t = "str" -> v.s # << >>
      [] v.t = "bool" -> v.b
      [] OTHER -> FALSE

\* a mapping (dict) or an object without .get (None)
EmptyItems == [k \in {} |-> PyNone]
Mapping(items) == [ismap |-> TRUE, items |-> items]
NotMapping == [ismap |-> FALSE, items |-> EmptyItems]

\* dict.get(key, default)
DictGet(m, key, default) == IF key \in DOMAIN m.items THEN m.items[key] ELSE default

\* floats, as exact fractions with a positive denominator
Frac(n, d) == [n |-> n, d |-> d]
Tenths(k) == Frac(k, 10)
FracEq(x, y) == x.n * y.d = y.n * x.d
FracLt(x, y) == x.n * y.d < y.n * x.d
FracLeq(x, y) == x.n * y.d <= y.n * x.d

\* what the body of a try block does: it returns a value or raises
Return(value, steps) == [raised |-> FALSE, value |-> value, cls |-> "", msg |-> "", steps |-> steps]
Raise(cls, msg, steps) == [raised |-> TRUE, value |-> EmptyItems, cls |-> cls, msg |-> msg, steps |-> steps]

\* `except Exception` : the classes raised below all derive from Exception
RaisedClasses == {"AttributeError", "TypeError", "binascii.Error", "MidiException",
                  "Music21Exception", "ZeroDivisionError"}
ExceptValueErrorOnly(cls) == cls \in {"binascii.Error"}

ExceptException(cls) == cls \in RaisedClasses

\* ------------------------------------------------------------------------
\* The decoded score (music21 Stream) and the payload that encodes it
\* ------------------------------------------------------------------------
\* An element of a part: a Note (one pitch) or a Chord (its pitches and the
\* name music21 gives it), at an offset in beats.
Note(offset, pitch) == [cls |-> "Note", offset |-> offset, pitches |-> <<pitch>>, symbol |-> << >>]
Chord(offset, pitches, symbol) == [cls |-> "Chord", offset |-> offset, pitches |-> pitches, symbol |-> symbol]
Part(instrument, elements) == [instrument |-> instrument, elements |-> elements]

NoKey == [tonic |-> << >>, mode |-> << >>]
\* parts: the parts of the score; key: what analyze('key') estimates;
\* broken: the library raises when the score is analysed
Stream(parts, key, broken) == [parts |-> parts, key |-> key, broken |-> broken]
EmptyStream == Stream(<< >>, NoKey, FALSE)

\* enc: "b64" for text that decodes to a score encoding, "bad_b64" for text
\* base64 rejects, "bad_midi" for text that decodes to bytes that are no score
Payload(enc, stream) == [enc |-> enc, stream |-> stream]

\* the value stored under 'midi_base64': a non-empty string (abstracted by
\* the payload it carries), the empty string, or None
MidiText(payload) == [t |-> "str", i |-> 0, s |-> <<"b","6","4">>, b |-> FALSE, payload |-> payload]
EmptyText == [t |-> "str", i |-> 0, s |-> << >>, b |-> FALSE, payload |-> Payload("empty", EmptyStream)]
NoneText == [t |-> "none", i |-> 0, s |-> << >>, b |-> FALSE, payload |-> Payload("empty", EmptyStream)]

parse_midi_base64(midi_base64, steps) ==
    CASE midi_base64.payload.enc = "b64" ->
            Return(midi_base64.payload.stream, steps \cup {"b64decode", "parse"})
      [] midi_base64.payload.enc = "bad_midi" ->
            Raise("MidiException", "badly formed midi bytes", steps \cup {"b64decode", "parse"})
      [] OTHER ->
            Raise("binascii.Error", "Incorrect padding", steps \cup {"b64decode"})

\* Stream.flatten(): all elements of all parts on one timeline, ordered by
\* offset, elements at one offset in their original order
RECURSIVE ConcatParts(_)
ConcatParts(parts) ==
    IF parts = << >> THEN << >> ELSE Head(parts).elements \o ConcatParts(Tail(parts))

RECURSIVE InsertByOffset(_, _)
InsertByOffset(sorted, e) ==
    IF sorted = << >> THEN <<e>>
    ELSE IF sorted[Len(sorted)].offset <= e.offset THEN Append(sorted, e)
    ELSE Append(InsertByOffset(SubSeq(sorted, 1, Len(sorted) - 1), e), sorted[Len(sorted)])

RECURSIVE SortByOffset(_)
SortByOffset(seq) ==
    IF seq = << >> THEN << >>
    ELSE InsertByOffset(SortByOffset(SubSeq(seq, 1, Len(seq) - 1)), seq[Len(seq)])

Flatten(parts) == SortByOffset(ConcatParts(parts))

SelectCls(flat, cls) == SelectSeq(flat, LAMBDA e : e.cls = cls)

\* the name music21 gives a chord built from a vertical slice
ROOT == <<"C", "-">>
SliceName(pitches) ==
    CASE Len(pitches) = 1 -> ROOT \o <<"n","o","t","e">>
      [] Len(pitches) = 2 -> ROOT \o <<"d","y","a","d">>
      [] OTHER -> ROOT \o <<"t","r","i","a","d">>

\* Stream.chordify(): one Chord per offset at which something sounds, made
\* of every pitch sounding there (all elements last one beat)
RECURSIVE PitchesAt(_, _)
PitchesAt(flat, offset) ==
    IF flat = << >> THEN << >>
    ELSE (IF Head(flat).offset = offset THEN Head(flat).pitches ELSE << >>)
         \o PitchesAt(Tail(flat), offset)

RECURSIVE ChordifyFrom(_, _)
ChordifyFrom(flat, i) ==
    IF i > Len(flat) THEN << >>
    ELSE IF \E j \in 1..(i - 1) : flat[j].offset = flat[i].offset
         THEN ChordifyFrom(flat, i + 1)
         ELSE <<Chord(flat[i].offset, PitchesAt(flat, flat[i].offset),
                      SliceName(PitchesAt(flat, flat[i].offset)))>>
              \o ChordifyFrom(flat, i + 1)

Chordify(flat) == ChordifyFrom(flat, 1)

\* ------------------------------------------------------------------------
\* chord_scorer.py
\* ------------------------------------------------------------------------
ChordDict(e) == [beat |-> e.offset, chord_symbol |-> e.symbol, notes |-> e.pitches]

extract_chordsMerged(score) ==
    LET flat == Flatten(score.parts)
        chord_symbols == SelectCls(flat, "Chord")
        chordified == SelectCls(Chordify(flat), "Chord")
    IN  [i \in 1..Len(chord_symbols) |-> ChordDict(chord_symbols[i])]
        \o [i \in 1..Len(chordified) |-> ChordDict(chordified[i])]

\* lines 24-50
extract_chords(score) ==
    LET flat == Flatten(score.parts)
        chord_symbols == SelectCls(flat, "Chord")
    IN  IF chord_symbols # << >>
        THEN [i \in 1..Len(chord_symbols) |-> ChordDict(chord_symbols[i])]
        ELSE LET chordified == SelectCls(Chordify(flat), "Chord")
             IN  [i \in 1..Len(chordified) |-> ChordDict(chordified[i])]

DEFAULT_MIN_CHORDS == 4
SEVENTH_MARKER == "7"

NoMidiDataFalsyOnlyNone(midi_data) == midi_data.t = "none"

NoMidiData(midi_data) == ~Truthy(midi_data)

PartialCreditInverted(chord_count, min_chords) == Frac(min_chords, chord_count)

PartialCreditFloorDiv(chord_count, min_chords) == Frac(chord_count \div min_chords, 1)

PartialCredit(chord_count, min_chords) == Frac(chord_count, min_chords)

MeetsMinimumNonZero(chord_count, min_chords) == min_chords > 0 /\ chord_count >= min_chords

MeetsMinimumInverted(chord_count, min_chords) == chord_count <= min_chords

MeetsMinimum(chord_count, min_chords) == chord_count >= min_chords

MissingSeventhsScoreUncapped(meets_minimum) == IF meets_minimum THEN Tenths(10) ELSE Tenths(5)

MissingSeventhsScore(meets_minimum) == Tenths(5)

NoChordsDetectedNegativeOnly(chord_count) == chord_count < 0

\* line 81
NoChordsDetected(chord_count) == chord_count = 0

\* lines 65-115, the body of the try block
ChordBody(output, expected) ==
    IF ~output.ismap
    THEN Raise("AttributeError", "object has no attribute 'get'", {})
    ELSE
    LET midi_data == DictGet(output, "midi_base64", EmptyText) IN
    IF NoMidiData(midi_data)
    THEN Return([score |-> Tenths(0), reason |-> <<"No MIDI data in output">>,
                 chords_found |-> 0], {})
    ELSE
    LET parsed == parse_midi_base64(midi_data, {}) IN
    IF parsed.raised THEN parsed
    ELSE IF parsed.value.broken
    THEN Raise("Music21Exception", "cannot process stream", parsed.steps \cup {"extract_chords"})
    ELSE
    LET chords == extract_chords(parsed.value)
        steps == parsed.steps \cup {"extract_chords"}
    IN
    IF ~expected.ismap
    THEN Raise("AttributeError", "object has no attribute 'get'", steps)
    ELSE
    LET min_chords == DictGet(expected, "min_chords", PyInt(DEFAULT_MIN_CHORDS))
        chord_count == Len(chords)
    IN
    IF NoChordsDetected(chord_count)
    THEN Return([score |-> Tenths(0), reason |-> <<"No chords detected">>,
                 chords_found |-> 0], steps)
    ELSE IF min_chords.t # "int"
    THEN Raise("TypeError", "'>=' not supported between instances", steps)
    ELSE
    LET meets_minimum == MeetsMinimum(chord_count, min_chords.i)
        has_7ths_required == DictGet(expected, "requires_7ths", PyBool(FALSE))
        has_7ths == \E i \in 1..Len(chords) : Contains(chords[i].chord_symbol, SEVENTH_MARKER)
    IN
    IF Truthy(has_7ths_required) /\ ~has_7ths
    THEN Return([score |-> MissingSeventhsScore(meets_minimum),
                 reason |-> <<"Missing required 7th chords">>,
                 chords_found |-> chord_count, chords |-> chords], steps)
    ELSE IF meets_minimum
    THEN Return([score |-> Tenths(10), chords_found |-> chord_count,
                 min_required |-> min_chords.i, chords |-> chords], steps)
    ELSE IF min_chords.i = 0
    THEN Raise("ZeroDivisionError", "division by zero", steps)
    ELSE Return([score |-> PartialCredit(chord_count, min_chords.i),
                 chords_found |-> chord_count,
                 min_required |-> min_chords.i, chords |-> chords], steps)

\* lines 64 and 117-122: the try / except Exception around the body.
\* escaped is the exception that leaves the scorer, "" when none does.
score_chord_detection(output, expected) ==
    LET body == ChordBody(output, expected) IN
    IF ~body.raised
    THEN [result |-> body.value, escaped |-> "", fault |-> "", steps |-> body.steps]
    ELSE IF ExceptException(body.cls)
    THEN [result |-> [score |-> Tenths(0),
                      reason |-> <<"Error parsing MIDI: ", body.msg>>,
                      chords_found |-> 0],
          escaped |-> "", fault |-> body.msg, steps |-> body.steps]
    ELSE [result |-> EmptyItems, escaped |-> body.cls, fault |-> body.msg, steps |-> body.steps]

\* ------------------------------------------------------------------------
\* key_scorer.py : score_key_validation
\* ------------------------------------------------------------------------
STR_EMPTY == << >>
MODAL_SCALES == { <<"d","o","r","i","a","n">>, <<"p","h","r","y","g","i","a","n">>,
                  <<"l","y","d","i","a","n">>, <<"m","i","x","o","l","y","d","i","a","n">>,
                  <<"a","e","o","l","i","a","n">>, <<"l","o","c","r","i","a","n">> }

ModalGrantsWithoutTonic(tonic_match) == TRUE

ModalGrants(tonic_match) == tonic_match

ModeMatchCaseSensitive(detected_mode, expected_scale) == detected_mode = expected_scale

ModeMatch(detected_mode, expected_scale) == StrLower(detected_mode) = StrLower(expected_scale)

\* lines 85-139, the body of the try block
KeyBody(output, expected) ==
    IF ~output.ismap
    THEN Raise("AttributeError", "object has no attribute 'get'", {})
    ELSE
    LET midi_data == DictGet(output, "midi_base64", EmptyText) IN
    IF NoMidiData(midi_data)
    THEN Return([score |-> Tenths(0), reason |-> <<"No MIDI data in output">>], {})
    ELSE
    LET parsed == parse_midi_base64(midi_data, {}) IN
    IF parsed.raised THEN parsed
    ELSE IF parsed.value.broken
    THEN Raise("Music21Exception", "cannot process stream", parsed.steps \cup {"detect_key"})
    ELSE
    LET detected_key == parsed.value.key
        steps == parsed.steps \cup {"detect_key"}
    IN
    IF ~expected.ismap
    THEN Raise("AttributeError", "object has no attribute 'get'", steps)
    ELSE
    LET expected_key == DictGet(expected, "key", PyStr(STR_EMPTY))
        expected_scale == DictGet(expected, "scale", PyStr(STR_MAJOR))
        expected_key_full == PyFormat(expected_key) \o <<" ">> \o PyFormat(expected_scale)
        detected_tonic == detected_key.tonic
        detected_mode == detected_key.mode
        detected_key_str == detected_tonic \o <<" ">> \o detected_mode
    IN
    IF expected_key.t # "str"
    THEN Raise("AttributeError", "object has no attribute 'replace'", steps)
    ELSE IF expected_scale.t # "str"
    THEN Raise("AttributeError", "object has no attribute 'lower'", steps)
    ELSE
    LET tonic_match == keys_match(detected_tonic, expected_key.s)
        mode_match == ModeMatch(detected_mode, expected_scale.s)
    IN
    IF StrLower(expected_scale.s) \in MODAL_SCALES /\ ModalGrants(tonic_match)
    THEN Return([score |-> Tenths(8), detected_key |-> detected_key_str,
                 expected_key |-> expected_key_full,
                 reason |-> <<"Tonic matches (modal detection is approximate)">>], steps)
    ELSE
    LET score == IF tonic_match /\ mode_match THEN Tenths(10)
                 ELSE IF tonic_match THEN Tenths(6)
                 ELSE Tenths(0)
    IN  Return([score |-> score, detected_key |-> detected_key_str,
                expected_key |-> expected_key_full,
                tonic_match |-> tonic_match, mode_match |-> mode_match], steps)

\* lines 84 and 141-145
score_key_validation(output, expected) ==
    LET body == KeyBody(output, expected) IN
    IF ~body.raised
    THEN [result |-> body.value, escaped |-> "", fault |-> "", steps |-> body.steps]
    ELSE IF ExceptException(body.cls)
    THEN [result |-> [score |-> Tenths(0),
                      reason |-> <<"Error analyzing key: ", body.msg>>],
          escaped |-> "", fault |-> body.msg, steps |-> body.steps]
    ELSE [result |-> EmptyItems, escaped |-> body.cls, fault |-> body.msg, steps |-> body.steps]

\* ------------------------------------------------------------------------
\* content_scorer.py
\* ------------------------------------------------------------------------
BASS_BELOW == 48
MELODY_ABOVE == 72

RECURSIVE SumSeq(_)
SumSeq(seq) == IF seq = << >> THEN 0 ELSE Head(seq) + SumSeq(Tail(seq))
MaxSeq(seq) == CHOOSE m \in {seq[i] : i \in 1..Len(seq)} : \A i \in 1..Len(seq) : seq[i] <= m
MinSeq(seq) == CHOOSE m \in {seq[i] : i \in 1..Len(seq)} : \A i \in 1..Len(seq) : m <= seq[i]

\* [n.pitch.midi for n in part.flatten().notes if hasattr(n, 'pitch')]:
\* a Note has .pitch, a Chord has only .pitches
NotePitches(part) ==
    LET notes == SelectCls(SortByOffset(part.elements), "Note")
    IN  [i \in 1..Len(notes) |-> notes[i].pitches[1]]

\* lines 52-69: the role of a part with at least one pitched note
RoleOf(part, avg_pitch) ==
    IF FracLt(avg_pitch, Frac(BASS_BELOW, 1)) THEN "bass"
    ELSE IF FracLt(Frac(MELODY_ABOVE, 1), avg_pitch) THEN "melody"
    ELSE IF Len(SelectCls(Chordify(SortByOffset(part.elements)), "Chord")) > 0 THEN "chords"
    ELSE "melody"

\* lines 48-69: a part's statistics and role, given its pitches
PartStats(base, pitches, role) ==
    IF pitches = << >>
    THEN [info |-> base @@ [avg_pitch |-> PyNone, pitch_range |-> PyNone], role |-> ""]
    ELSE [info |-> base @@ [avg_pitch |-> Frac(SumSeq(pitches), Len(pitches)),
                            pitch_range |-> PyInt(MaxSeq(pitches) - MinSeq(pitches)),
                            role |-> role],
          role |-> role]

PartRole(part, pitches) ==
    IF pitches = << >> THEN "" ELSE RoleOf(part, Frac(SumSeq(pitches), Len(pitches)))

\* lines 39-71: one part's part_info and the flag it sets ("" for none)
PartInfoOf(part, pitches) ==
    PartStats([instrument |-> part.instrument, notes_count |-> Len(part.elements)],
              pitches, PartRole(part, pitches))

PartInfo(part) == PartInfoOf(part, NotePitches(part))

DetectedTypeIgnoringBass(has_chords, has_melody, has_bass) ==
    IF has_chords /\ has_melody THEN "full_arrangement"
    ELSE IF has_chords THEN "chords"
    ELSE IF has_melody THEN "melody_only"
    ELSE "unknown"

\* lines 73-85
DetectedType(has_chords, has_melody, has_bass) ==
    IF has_chords /\ has_melody /\ has_bass THEN "full_arrangement"
    ELSE IF has_chords /\ has_melody THEN "chords_and_melody"
    ELSE IF has_chords THEN "chords"
    ELSE IF has_melody THEN "melody_only"
    ELSE "unknown"

\* lines 73-86
Analysis(infos, has_chords, has_melody, has_bass) ==
    [num_parts |-> Len(infos),
     has_chords |-> has_chords,
     has_melody |-> has_melody,
     has_bass |-> has_bass,
     parts_info |-> [i \in 1..Len(infos) |-> infos[i].info],
     detected_type |-> DetectedType(has_chords, has_melody, has_bass)]

HasRoleLastPart(infos, role) == Len(infos) > 0 /\ infos[Len(infos)].role = role

\* lines 55, 58, 64, 68: a flag is set once any part takes the role
HasRole(infos, role) == \E i \in 1..Len(infos) : infos[i].role = role

AnalysisOf(infos) ==
    Analysis(infos, HasRole(infos, "chords"), HasRole(infos, "melody"), HasRole(infos, "bass"))

analyze_content_type(score) ==
    AnalysisOf([i \in 1..Len(score.parts) |-> PartInfo(score.parts[i])])

TypeName(t) ==
    CASE t = "chords" -> PyStr(<<"chords">>)
      [] t = "chords_and_melody" -> PyStr(<<"chords_and_melody">>)
      [] t = "full_arrangement" -> PyStr(<<"full_arrangement">>)
      [] t = "melody_only" -> PyStr(<<"melody_only">>)
      [] OTHER -> PyStr(<<"unknown">>)

upgrade_pathsChordsOnly(expected_type) ==
    CASE expected_type = TypeName("chords") ->
            {TypeName("chords_and_melody"), TypeName("full_arrangement")}
      [] OTHER -> {}

\* lines 126-129
upgrade_paths(expected_type) ==
    CASE expected_type = TypeName("chords") ->
            {TypeName("chords_and_melody"), TypeName("full_arrangement")}
      [] expected_type = TypeName("chords_and_melody") -> {TypeName("full_arrangement")}
      [] OTHER -> {}

UnderDeliveryScoreLenient(expected_type, detected_type) ==
    IF expected_type = TypeName("chords")
       /\ detected_type \in {TypeName("chords_and_melody"), TypeName("full_arrangement")}
    THEN Tenths(7)
    ELSE IF expected_type = TypeName("chords_and_melody") /\ detected_type = TypeName("chords")
    THEN Tenths(5)
    ELSE IF expected_type = TypeName("full_arrangement")
            /\ detected_type \in {TypeName("chords_and_melody"), TypeName("chords")}
    THEN Tenths(7)
    ELSE Tenths(0)

\* lines 142-149
UnderDeliveryScore(expected_type, detected_type) ==
    IF expected_type = TypeName("chords")
       /\ detected_type \in {TypeName("chords_and_melody"), TypeName("full_arrangement")}
    THEN Tenths(7)
    ELSE IF expected_type = TypeName("chords_and_melody") /\ detected_type = TypeName("chords")
    THEN Tenths(5)
    ELSE IF expected_type = TypeName("full_arrangement")
            /\ detected_type = TypeName("chords_and_melody")
    THEN Tenths(7)
    ELSE Tenths(0)

ContentCompareTableOnly(detected_type, expected_type, analysis, steps) ==
    IF detected_type = expected_type
    THEN Return([score |-> Tenths(10), detected_type |-> detected_type,
                 expected_type |-> expected_type, analysis |-> analysis], steps)
    ELSE Return([score |-> UnderDeliveryScore(expected_type, detected_type),
                 detected_type |-> detected_type,
                 expected_type |-> expected_type, analysis |-> analysis], steps)

\* lines 112-156: the comparison of the detected with the expected type
ContentCompare(detected_type, expected_type, analysis, steps) ==
    IF detected_type = expected_type
    THEN Return([score |-> Tenths(10), detected_type |-> detected_type,
                 expected_type |-> expected_type, analysis |-> analysis], steps)
    ELSE IF expected_type.t = "list"
    THEN Raise("TypeError", "unhashable type: 'list'", steps)
    ELSE IF detected_type \in upgrade_paths(expected_type)
    THEN Return([score |-> Tenths(9), detected_type |-> detected_type,
                 expected_type |-> expected_type,
                 reason |-> <<"More content than requested (acceptable)">>,
                 analysis |-> analysis], steps)
    ELSE Return([score |-> UnderDeliveryScore(expected_type, detected_type),
                 detected_type |-> detected_type,
                 expected_type |-> expected_type, analysis |-> analysis], steps)

DefaultContentTypeUnknown == TypeName("unknown")

\* line 112: expected.get('content_type', 'chords')
DEFAULT_CONTENT_TYPE == TypeName("chords")

\* lines 110-113
ContentAnalysed(analysis, expected, steps) ==
    IF ~expected.ismap
    THEN Raise("AttributeError", "object has no attribute 'get'", steps)
    ELSE ContentCompare(TypeName(analysis.detected_type),
                        DictGet(expected, "content_type", DEFAULT_CONTENT_TYPE),
                        analysis, steps)

\* lines 109-110
ContentParsed(parsed, expected) ==
    IF parsed.raised THEN parsed
    ELSE IF parsed.value.broken
    THEN Raise("Music21Exception", "cannot process stream",
               parsed.steps \cup {"analyze_content_type"})
    ELSE ContentAnalysed(analyze_content_type(parsed.value), expected,
                         parsed.steps \cup {"analyze_content_type"})

\* lines 102-107
ContentPayload(midi_data, expected) ==
    IF NoMidiData(midi_data)
    THEN Return([score |-> Tenths(0), reason |-> <<"No MIDI data in output">>], {})
    ELSE ContentParsed(parse_midi_base64(midi_data, {}), expected)

\* lines 101-156, the body of the try block
ContentBody(output, expected) ==
    IF ~output.ismap
    THEN Raise("AttributeError", "object has no attribute 'get'", {})
    ELSE ContentPayload(DictGet(output, "midi_base64", EmptyText), expected)

\* lines 100 and 158-162
ContentBoundary(body) ==
    IF ~body.raised
    THEN [result |-> body.value, escaped |-> "", fault |-> "", steps |-> body.steps]
    ELSE IF ExceptException(body.cls)
    THEN [result |-> [score |-> Tenths(0),
                      reason |-> <<"Error analyzing content: ", body.msg>>],
          escaped |-> "", fault |-> body.msg, steps |-> body.steps]
    ELSE [result |-> EmptyItems, escaped |-> body.cls, fault |-> body.msg, steps |-> body.steps]

score_content_type(output, expected) == ContentBoundary(ContentBody(output, expected))

\* ------------------------------------------------------------------------
\* Inputs the scorers are applied to
\* ------------------------------------------------------------------------
RECURSIVE SeqsUpTo(_, _)
SeqsUpTo(S, n) ==
    IF n = 0 THEN { << >> }
    ELSE LET shorter == SeqsUpTo(S, n - 1)
         IN  shorter \cup { Append(q, x) : q \in shorter, x \in S }

PIANO == <<"P","i","a","n","o">>
SYM_TRIAD == ROOT \o <<"t","r","i","a","d">>
SYM_SEVENTH == <<"G","7">>
Triad(offset) == Chord(offset, <<60, 64, 67>>, SYM_TRIAD)
Seventh(offset) == Chord(offset, <<55, 59, 62, 65>>, SYM_SEVENTH)

OkOutput(stream) == Mapping([midi_base64 |-> MidiText(Payload("b64", stream))])

\* outputs whose payload is missing, is rejected by the decoder, or decodes
\* to a score the library then fails on
FailingOutputs ==
    { NotMapping,
      Mapping(EmptyItems),
      Mapping([midi_base64 |-> EmptyText]),
      Mapping([midi_base64 |-> NoneText]),
      Mapping([midi_base64 |-> MidiText(Payload("bad_b64", EmptyStream))]),
      Mapping([midi_base64 |-> MidiText(Payload("bad_midi", EmptyStream))]),
      OkOutput(Stream(<< >>, NoKey, TRUE)) }

Absent == [present |-> FALSE, v |-> PyNone]
Present(v) == [present |-> TRUE, v |-> v]

\* a mapping with the given keys, each present or absent
Expectation(k1, c1, k2, c2) ==
    Mapping([k \in {x \in {k1, k2} : IF x = k1 THEN c1.present ELSE c2.present}
                |-> IF k = k1 THEN c1.v ELSE c2.v])

ChordEventKinds == { Triad(0), Seventh(0), Note(0, 60), Note(0, 64), Note(1, 60) }
ChordStreams == { Stream(<<Part(PIANO, es)>>, NoKey, FALSE) : es \in SeqsUpTo(ChordEventKinds, MaxEvents) }
ChordOutputs == FailingOutputs \cup { OkOutput(st) : st \in ChordStreams }
MinChordsChoices == {Absent, Present(PyNone)} \cup { Present(PyInt(n)) : n \in 0..MaxMinChords }
Requires7thsChoices == {Absent, Present(PyBool(TRUE)), Present(PyBool(FALSE))}
ChordExpectations ==
    {NotMapping} \cup
    { Expectation("min_chords", mc, "requires_7ths", r) :
        mc \in MinChordsChoices, r \in Requires7thsChoices }

STR_DORIAN == <<"d","o","r","i","a","n">>
DetectedKeys ==
    { [tonic |-> t, mode |-> m] :
        t \in { <<"C">>, <<"C","#">>, <<"D">>, <<"E","-">> },
        m \in { STR_MAJOR, STR_MINOR, STR_DORIAN } }
KeyOutputs == FailingOutputs \cup { OkOutput(Stream(<< >>, k, FALSE)) : k \in DetectedKeys }
ExpectedKeyChoices ==
    {Absent, Present(PyNone)} \cup
    { Present(PyStr(t)) : t \in { <<"C">>, <<"c">>, <<"C","#">>, <<"D","b">>, <<"D">> } }
ExpectedScaleChoices ==
    {Absent, Present(PyNone)} \cup
    { Present(PyStr(sc)) : sc \in { STR_MAJOR, <<"M","a","j","o","r">>, STR_MINOR,
                                    STR_DORIAN, <<"D","o","r","i","a","n">>,
                                    <<"l","y","d","i","a","n">> } }
KeyExpectations ==
    {NotMapping} \cup
    { Expectation("key", k, "scale", sc) : k \in ExpectedKeyChoices, sc \in ExpectedScaleChoices }

ContentPartKinds ==
    { Part(PIANO, << >>),
      Part(PIANO, <<Triad(0)>>),
      Part(PIANO, <<Note(0, 36)>>),
      Part(PIANO, <<Note(0, 84), Note(1, 86)>>),
      Part(PIANO, <<Note(0, 60), Note(0, 64)>>) }
ContentStreams == { Stream(ps, NoKey, FALSE) : ps \in SeqsUpTo(ContentPartKinds, MaxParts) }
ContentOutputs == FailingOutputs \cup { OkOutput(st) : st \in ContentStreams }
ContentTypeChoices ==
    {Absent, Present(PyNone), Present(PyList)} \cup
    { Present(TypeName(t)) : t \in {"chords", "chords_and_melody", "full_arrangement", "melody_only"} }
ContentExpectations ==
    {NotMapping} \cup
    { Expectation("content_type", ct, "content_type", ct) : ct \in ContentTypeChoices }

\* two-copy specification: scores of explicit chords, one shared expectation
PairStreams ==
    { Stream(<<Part(PIANO, es)>>, NoKey, FALSE) : es \in SeqsUpTo({Triad(0), Seventh(0)}, MaxPairChords) }
PairExpectations ==
    { Expectation("min_chords", mc, "requires_7ths", r) :
        mc \in {Absent} \cup { Present(PyInt(n)) : n \in 0..MaxMinChords },
        r \in Requires7thsChoices }

\* ------------------------------------------------------------------------
\* State
\* ------------------------------------------------------------------------
Copies == {1, 2}

VARIABLES
    pc,         \* per copy: "idle", "ready" (inputs given) or "done" (scorer returned)
    fn,         \* per copy: the scorer called, "chord", "key" or "content"
    output,     \* per copy: the output mapping given to the scorer
    expected,   \* per copy: the expected mapping given to the scorer
    result,     \* per copy: the mapping the scorer returned
    escaped,    \* per copy: class of an exception that left the scorer, "" if none
    fault,      \* per copy: message of the exception raised inside the scorer, "" if none
    steps,      \* per copy: the library calls the scorer made
    kpc,        \* "idle", "ready" before keys_match is applied to (ka, kb), "done" after
    ka, kb,     \* the two key names
    kab, kba    \* keys_match(ka, kb) and keys_match(kb, ka)

svars == <<pc, fn, output, expected, result, escaped, fault, steps>>
kvars == <<kpc, ka, kb, kab, kba>>
vars == <<pc, fn, output, expected, result, escaped, fault, steps, kpc, ka, kb, kab, kba>>

NoCall == [c \in Copies |-> EmptyItems]
Blank == [c \in Copies |-> ""]

IdleScorers ==
    /\ pc = [c \in Copies |-> "idle"]
    /\ fn = [c \in Copies |-> "none"]
    /\ output = [c \in Copies |-> NotMapping]
    /\ expected = [c \in Copies |-> NotMapping]
    /\ result = NoCall
    /\ escaped = Blank
    /\ fault = Blank
    /\ steps = [c \in Copies |-> {}]

IdleKeys ==
    /\ kpc = "idle"
    /\ ka = << >>
    /\ kb = << >>
    /\ kab = FALSE
    /\ kba = FALSE

InputsOf(f) ==
    CASE f = "chord" -> ChordOutputs \X ChordExpectations
      [] f = "key" -> KeyOutputs \X KeyExpectations
      [] f = "content" -> ContentOutputs \X ContentExpectations

\* one scorer call with any input; the second copy stays idle
Init ==
    /\ \E f \in {"chord", "key", "content"} : \E in \in InputsOf(f) :
          /\ fn = [c \in Copies |-> IF c = 1 THEN f ELSE "none"]
          /\ output = [c \in Copies |-> IF c = 1 THEN in[1] ELSE NotMapping]
          /\ expected = [c \in Copies |-> IF c = 1 THEN in[2] ELSE NotMapping]
    /\ pc = [c \in Copies |-> IF c = 1 THEN "ready" ELSE "idle"]
    /\ result = NoCall
    /\ escaped = Blank
    /\ fault = Blank
    /\ steps = [c \in Copies |-> {}]
    /\ IdleKeys

Returned(c, r) ==
    /\ pc' = [pc EXCEPT ![c] = "done"]
    /\ result' = [result EXCEPT ![c] = r.result]
    /\ escaped' = [escaped EXCEPT ![c] = r.escaped]
    /\ fault' = [fault EXCEPT ![c] = r.fault]
    /\ steps' = [steps EXCEPT ![c] = r.steps]
    /\ UNCHANGED <<fn, output, expected, kvars>>

ScoreChordDetection(c) ==
    /\ pc[c] = "ready"
    /\ fn[c] = "chord"
    /\ Returned(c, score_chord_detection(output[c], expected[c]))

ScoreKeyValidation(c) ==
    /\ pc[c] = "ready"
    /\ fn[c] = "key"
    /\ Returned(c, score_key_validation(output[c], expected[c]))

ScoreContentType(c) ==
    /\ pc[c] = "ready"
    /\ fn[c] = "content"
    /\ Returned(c, score_content_type(output[c], expected[c]))

Next ==
    \E c \in Copies :
        \/ ScoreChordDetection(c)
        \/ ScoreKeyValidation(c)
        \/ ScoreContentType(c)

Spec == Init /\ [][Next]_vars

\* two copies of the chord scorer, stepped in either order
InitPair ==
    /\ \E e \in PairExpectations : expected = [c \in Copies |-> e]
    /\ output \in [Copies -> { OkOutput(st) : st \in PairStreams }]
    /\ fn = [c \in Copies |-> "chord"]
    /\ pc = [c \in Copies |-> "ready"]
    /\ result = NoCall
    /\ escaped = Blank
    /\ fault = Blank
    /\ steps = [c \in Copies |-> {}]
    /\ IdleKeys

NextPair == \E c \in Copies : ScoreChordDetection(c)

SpecPair == InitPair /\ [][NextPair]_vars

\* ------------------------------------------------------------------------
\* keys_match applied to a pair of names, in both argument orders
\* ------------------------------------------------------------------------
InitKeys ==
    /\ kpc = "ready"
    /\ ka \in KeyNames
    /\ kb \in KeyNames
    /\ kab = FALSE
    /\ kba = FALSE
    /\ IdleScorers

KeysMatchCall ==
    /\ kpc = "ready"
    /\ kab' = keys_match(ka, kb)
    /\ kba' = keys_match(kb, ka)
    /\ kpc' = "done"
    /\ UNCHANGED <<ka, kb, svars>>

NextKeys == KeysMatchCall

SpecKeys == InitKeys /\ [][NextKeys]_vars

\* sevenths specification: the chord scorer twice on one score with one
\* min_chords, copy 1 with requires_7ths true and copy 2 with it false
SeventhsMinChords == {Absent} \cup { Present(PyInt(n)) : n \in 0..MaxMinChords }

InitSevenths ==
    /\ \E st \in ChordStreams : output = [c \in Copies |-> OkOutput(st)]
    /\ \E mc \in SeventhsMinChords :
          expected = [c \in Copies |->
                        Expectation("min_chords", mc, "requires_7ths", Present(PyBool(c = 1)))]
    /\ fn = [c \in Copies |-> "chord"]
    /\ pc = [c \in Copies |-> "ready"]
    /\ result = NoCall
    /\ escaped = Blank
    /\ fault = Blank
    /\ steps = [c \in Copies |-> {}]
    /\ IdleKeys

NextSevenths == \E c \in Copies : ScoreChordDetection(c)

SpecSevenths == InitSevenths /\ [][NextSevenths]_vars

\* spelling specification: keys_match on two spellings of tonic names: the
\* seven letters in either case, and accidentals in ASCII, word and glyph
\* form, with or without outer blanks
TonicLetters == {"A", "B", "C", "D", "E", "F", "G"}
LetterForms(l) == { <<l>>, StrLower(<<l>>), <<" ", l, " ">> }
STR_SHARP == <<"s","h","a","r","p">>
STR_FLAT == <<"f","l","a","t">>
SharpForms(l) == { <<l, "#">>, <<l, " ">> \o STR_SHARP, <<l>> \o STR_SHARP, <<l, SHARP>>, <<" ", l, "#">> }
FlatForms(l) == { <<l, "b">>, <<l, " ">> \o STR_FLAT, <<l>> \o STR_FLAT, <<l, FLAT>>, <<l, "b", " ">> }
SpelledLetters == {"C", "B"}
SpellNames ==
    UNION { LetterForms(l) : l \in TonicLetters }
    \cup UNION { SharpForms(l) \cup FlatForms(l) : l \in SpelledLetters }

InitSpell ==
    /\ kpc = "ready"
    /\ ka \in SpellNames
    /\ kb \in SpellNames
    /\ kab = FALSE
    /\ kba = FALSE
    /\ IdleScorers

NextSpell == KeysMatchCall

SpecSpell == InitSpell /\ [][NextSpell]_vars

\* two-copy specification: the content scorer on a score and on the same
\* parts in another order, one shared expectation
PartOrders(n) == { p \in [1..n -> 1..n] : \A i, j \in 1..n : p[i] = p[j] => i = j }
Permute(ps, p) == [i \in 1..Len(ps) |-> ps[p[i]]]
PermExpectations ==
    { Expectation("content_type", ct, "content_type", ct) :
        ct \in {Absent, Present(TypeName("full_arrangement"))} }

InitPerm ==
    /\ \E ps \in SeqsUpTo(ContentPartKinds, MaxParts) : \E p \in PartOrders(Len(ps)) :
          output = [c \in Copies |->
                      OkOutput(Stream(IF c = 1 THEN ps ELSE Permute(ps, p), NoKey, FALSE))]
    /\ \E e \in PermExpectations : expected = [c \in Copies |-> e]
    /\ fn = [c \in Copies |-> "content"]
    /\ pc = [c \in Copies |-> "ready"]
    /\ result = NoCall
    /\ escaped = Blank
    /\ fault = Blank
    /\ steps = [c \in Copies |-> {}]
    /\ IdleKeys

NextPerm == \E c \in Copies : ScoreContentType(c)

SpecPerm == InitPerm /\ [][NextPerm]_vars

\* one-part specification: the content scorer on a score of one part whose
\* notes lie around the two thresholds of the mean pitch
BoundaryPitches == {BASS_BELOW - 1, BASS_BELOW, BASS_BELOW + 1,
                    MELODY_ABOVE - 1, MELODY_ABOVE, MELODY_ABOVE + 1}
PartEventKinds == { Note(o, p) : o \in {0, 1}, p \in BoundaryPitches } \cup {Triad(0)}
BoundaryParts == { Part(PIANO, es) : es \in SeqsUpTo(PartEventKinds, MaxPartEvents) }

InitParts ==
    /\ \E part \in BoundaryParts : \E e \in PermExpectations :
          /\ output = [c \in Copies |->
                         IF c = 1 THEN OkOutput(Stream(<<part>>, NoKey, FALSE)) ELSE NotMapping]
          /\ expected = [c \in Copies |-> IF c = 1 THEN e ELSE NotMapping]
    /\ fn = [c \in Copies |-> IF c = 1 THEN "content" ELSE "none"]
    /\ pc = [c \in Copies |-> IF c = 1 THEN "ready" ELSE "idle"]
    /\ result = NoCall
    /\ escaped = Blank
    /\ fault = Blank
    /\ steps = [c \in Copies |-> {}]
    /\ IdleKeys

NextParts == ScoreContentType(1)

SpecParts == InitParts /\ [][NextParts]_vars

\* chord-extraction specification: the chord scorer on a score of two
\* parts with chords and notes at two offsets, in any insertion order; the
\* result's chords entry is the list extract_chords returned
ExtractEventKinds == { Triad(0), Seventh(1), Note(0, 60), Note(0, 64), Note(1, 62) }
ExtractParts == { Part(PIANO, es) : es \in SeqsUpTo(ExtractEventKinds, MaxExtractEvents) }
ExtractStreams == { Stream(<<p1, p2>>, NoKey, FALSE) : p1 \in ExtractParts, p2 \in ExtractParts }
ExtractExpectation == Expectation("min_chords", Present(PyInt(1)), "requires_7ths", Absent)

InitExtract ==
    /\ \E st \in ExtractStreams :
          output = [c \in Copies |-> IF c = 1 THEN OkOutput(st) ELSE NotMapping]
    /\ expected = [c \in Copies |-> IF c = 1 THEN ExtractExpectation ELSE NotMapping]
    /\ fn = [c \in Copies |-> IF c = 1 THEN "chord" ELSE "none"]
    /\ pc = [c \in Copies |-> IF c = 1 THEN "ready" ELSE "idle"]
    /\ result = NoCall
    /\ escaped = Blank
    /\ fault = Blank
    /\ steps = [c \in Copies |-> {}]
    /\ IdleKeys

NextExtract == ScoreChordDetection(1)

SpecExtract == InitExtract /\ [][NextExtract]_vars

\* ------------------------------------------------------------------------
\* Properties
\* ------------------------------------------------------------------------
Done(c) == pc[c] = "done"
HasPayload(o) == o.ismap /\ "midi_base64" \in DOMAIN o.items
\* the payload decodes and the library analyses the decoded score
DecodesOk(o) ==
    /\ HasPayload(o)
    /\ o.items["midi_base64"].payload.enc = "b64"
    /\ ~o.items["midi_base64"].payload.stream.broken
StreamOf(o) == o.items["midi_base64"].payload.stream
\* no encoded payload: the field is absent, or present but the empty string
MissingPayload(o) ==
    /\ o.ismap
    /\ ("midi_base64" \in DOMAIN o.items => o.items["midi_base64"] = EmptyText)
HasReason(r) == "reason" \in DOMAIN r /\ r.reason # << >>
ScoreIs(r, x) == "score" \in DOMAIN r /\ FracEq(r.score, x)

\* the chord expectation as the claims read it
IntMinChords(e) ==
    /\ e.ismap
    /\ ("min_chords" \in DOMAIN e.items => e.items["min_chords"].t = "int")
MinChordsOf(e) == IF "min_chords" \in DOMAIN e.items THEN e.items["min_chords"].i ELSE 4
RequiresSevenths(e) ==
    IF "requires_7ths" \in DOMAIN e.items THEN e.items["requires_7ths"].b ELSE FALSE
ChordsOf(o) == extract_chords(StreamOf(o))
HasSeventh(o) == \E i \in 1..Len(ChordsOf(o)) : Contains(ChordsOf(o)[i].chord_symbol, "7")
SeventhsFail(c) == RequiresSevenths(expected[c]) /\ ~HasSeventh(output[c])
ChordCase(c) ==
    /\ Done(c) /\ fn[c] = "chord"
    /\ DecodesOk(output[c])
    /\ IntMinChords(expected[c])

\* C1: no scorer ever lets an exception out; a failure while decoding or
\* analysing (bad base64, bad score encoding, a library fault, a malformed
\* expectation value) comes back as score 0.0 with a reason that includes
\* the failure's message.
NeverRaises ==
    \A c \in Copies :
        Done(c) =>
            /\ escaped[c] = ""
            /\ fault[c] # "" =>
                  /\ ScoreIs(result[c], Tenths(0))
                  /\ HasReason(result[c])
                  /\ \E i \in 1..Len(result[c].reason) : result[c].reason[i] = fault[c]

NeverRaisesWitness ==
    /\ Done(1) /\ fn[1] = "chord"
    /\ DecodesOk(output[1])
    /\ Len(ChordsOf(output[1])) > 0
    /\ expected[1].ismap /\ ~IntMinChords(expected[1])
    /\ fault[1] = "'>=' not supported between instances"
    /\ ScoreIs(result[1], Tenths(0))

\* C2: the score every scorer returns lies in [0, 1].
ScoreInRange ==
    \A c \in Copies :
        Done(c) =>
            /\ "score" \in DOMAIN result[c]
            /\ FracLeq(Tenths(0), result[c].score)
            /\ FracLeq(result[c].score, Tenths(10))

ScoreInRangeWitness ==
    /\ Done(1) /\ fn[1] = "chord"
    /\ "min_required" \in DOMAIN result[1]
    /\ FracLt(Tenths(0), result[1].score)
    /\ FracLt(result[1].score, Tenths(10))

\* C3: with no encoded payload (field absent, or present but empty) every
\* scorer returns score 0.0 and a non-empty reason, raises nothing, and
\* makes no decoding or analysing call.
EmptyInputContract ==
    \A c \in Copies :
        (Done(c) /\ MissingPayload(output[c])) =>
            /\ ScoreIs(result[c], Tenths(0))
            /\ HasReason(result[c])
            /\ escaped[c] = "" /\ fault[c] = ""
            /\ steps[c] = {}

EmptyInputWitness ==
    /\ Done(1) /\ fn[1] = "content"
    /\ output[1] = Mapping([midi_base64 |-> EmptyText])
    /\ ScoreIs(result[1], Tenths(0))

\* C4: with at least one chord and the sevenths requirement not failing,
\* the chord score is 1.0 when count >= min_chords and count / min_chords,
\* in [0, 1), otherwise; min_chords defaults to 4, requires_sevenths to false.
ChordCountPolicy ==
    \A c \in Copies :
        (ChordCase(c) /\ Len(ChordsOf(output[c])) >= 1 /\ ~SeventhsFail(c)) =>
            LET count == Len(ChordsOf(output[c]))
                min_chords == MinChordsOf(expected[c])
            IN  IF count >= min_chords
                THEN ScoreIs(result[c], Tenths(10))
                ELSE /\ ScoreIs(result[c], Frac(count, min_chords))
                     /\ FracLeq(Tenths(0), result[c].score)
                     /\ FracLt(result[c].score, Tenths(10))

ChordCountPolicyWitness ==
    /\ ChordCase(1)
    /\ "min_chords" \notin DOMAIN expected[1].items
    /\ "requires_7ths" \notin DOMAIN expected[1].items
    /\ Len(ChordsOf(output[1])) = 3
    /\ ScoreIs(result[1], Frac(3, 4))

SeventhsCap ==
    \A c \in Copies :
        (/\ Done(c) /\ fn[c] = "chord"
         /\ DecodesOk(output[c])
         /\ expected[c].ismap
         /\ Len(ChordsOf(output[c])) >= 1
         /\ SeventhsFail(c))
        => /\ "score" \in DOMAIN result[c]
           /\ FracLeq(result[c].score, Tenths(5))
           /\ HasReason(result[c])

SeventhsCapWitness ==
    /\ ChordCase(1)
    /\ SeventhsFail(1)
    /\ Len(ChordsOf(output[1])) >= 1
    /\ Len(ChordsOf(output[1])) >= MinChordsOf(expected[1])
    /\ ScoreIs(result[1], Tenths(5))

\* the key expectation as the claims read it
StrKeyAndScale(e) ==
    /\ e.ismap
    /\ ("key" \in DOMAIN e.items => e.items["key"].t = "str")
    /\ ("scale" \in DOMAIN e.items => e.items["scale"].t = "str")
ExpectedTonic(e) == IF "key" \in DOMAIN e.items THEN e.items["key"].s ELSE << >>
ExpectedScale(e) == IF "scale" \in DOMAIN e.items THEN e.items["scale"].s ELSE STR_MAJOR
KeyCase(c) ==
    /\ Done(c) /\ fn[c] = "key"
    /\ DecodesOk(output[c])
    /\ StrKeyAndScale(expected[c])
TonicMatches(c) == keys_match(StreamOf(output[c]).key.tonic, ExpectedTonic(expected[c]))
ModeMatches(c) ==
    StrLower(StreamOf(output[c]).key.mode) = StrLower(ExpectedScale(expected[c]))
ModalExpected(c) == StrLower(ExpectedScale(expected[c])) \in MODAL_SCALES

\* C7: the key score is 0.8 when the expected scale is a modal name and the
\* tonic matches (also when the detected mode equals the expected scale),
\* else 1.0 when tonic and mode match, else 0.6 when the tonic matches;
\* the expected scale defaults to "major".
KeyScoringPolicy ==
    \A c \in Copies :
        (KeyCase(c) /\ TonicMatches(c)) =>
            IF ModalExpected(c) THEN ScoreIs(result[c], Tenths(8))
            ELSE IF ModeMatches(c) THEN ScoreIs(result[c], Tenths(10))
            ELSE ScoreIs(result[c], Tenths(6))

KeyScoringPolicyWitness ==
    /\ KeyCase(1) /\ TonicMatches(1)
    /\ ModalExpected(1)
    /\ StreamOf(output[1]).key.mode = ExpectedScale(expected[1])
    /\ ScoreIs(result[1], Tenths(8))

\* C8: when the detected tonic does not match the expected tonic the key
\* score is 0.0, whatever the detected mode and the expected scale, modal
\* names included.
TonicMismatchScoresZero ==
    \A c \in Copies :
        (KeyCase(c) /\ ~TonicMatches(c)) => ScoreIs(result[c], Tenths(0))

TonicMismatchWitness ==
    /\ KeyCase(1) /\ ~TonicMatches(1)
    /\ ModalExpected(1)
    /\ ExpectedTonic(expected[1]) # << >>
    /\ ScoreIs(result[1], Tenths(0))

\* C9: keys_match gives the same answer in both argument orders for every
\* pair of names of the enharmonic table (ASCII or glyph spelling, with or
\* without a major/minor qualifier), and the two names of a table pair match
\* in both directions (with a qualifier on at most one of them).
EnharmonicSymmetry ==
    kpc = "done" =>
        /\ kab = kba
        /\ (IsTablePartner(ka, kb) /\ (QualifierOf(ka) = << >> \/ QualifierOf(kb) = << >>))
              => (kab /\ kba)

EnharmonicSymmetryWitness ==
    /\ kpc = "done"
    /\ ka = <<"C", "#">> \o <<" ">> \o STR_MAJOR
    /\ kb = <<"D", "b">>
    /\ kab /\ kba

\* C10: keys_match is true whenever the two names, qualifier stripped, are
\* partners of the enharmonic table, wherever the qualifier stands.
PartnerAlwaysMatches ==
    (kpc = "done" /\ IsTablePartner(ka, kb)) => kab

\* the content scorer decoded and analysed the score and compared it with
\* the expectation (the result carries the analysis)
ContentCase(c) ==
    /\ Done(c) /\ fn[c] = "content"
    /\ DecodesOk(output[c])
    /\ "analysis" \in DOMAIN result[c]
AnalysisIn(c) == result[c].analysis

\* C11: detected_type follows from the three flags by fixed precedence:
\* chords, melody and bass give full_arrangement; chords and melody give
\* chords_and_melody; chords gives chords; melody gives melody_only; else
\* unknown -- for all eight combinations of the flags.
DetectedTypePrecedence ==
    \A c \in Copies :
        ContentCase(c) =>
            LET a == AnalysisIn(c)
                flags == <<a.has_chords, a.has_melody, a.has_bass>>
            IN  a.detected_type =
                    CASE flags = <<TRUE, TRUE, TRUE>> -> "full_arrangement"
                      [] flags = <<TRUE, TRUE, FALSE>> -> "chords_and_melody"
                      [] flags = <<TRUE, FALSE, TRUE>> -> "chords"
                      [] flags = <<TRUE, FALSE, FALSE>> -> "chords"
                      [] flags = <<FALSE, TRUE, TRUE>> -> "melody_only"
                      [] flags = <<FALSE, TRUE, FALSE>> -> "melody_only"
                      [] flags = <<FALSE, FALSE, TRUE>> -> "unknown"
                      [] flags = <<FALSE, FALSE, FALSE>> -> "unknown"

DetectedTypePrecedenceWitness ==
    /\ ContentCase(1)
    /\ AnalysisIn(1).has_chords /\ AnalysisIn(1).has_bass /\ ~AnalysisIn(1).has_melody
    /\ AnalysisIn(1).detected_type = "chords"

\* the set of the parts of the score a copy was called with
PartSetOf(c) == { StreamOf(output[c]).parts[i] : i \in 1..Len(StreamOf(output[c]).parts) }
RolesIn(c) ==
    { PartInfo(StreamOf(output[c]).parts[i]).role : i \in 1..Len(StreamOf(output[c]).parts) }

\* C12: the flags and the detected type do not depend on the order of the
\* parts: a score and any permutation of its parts get the same has_bass,
\* has_melody, has_chords and detected_type, and parts with the roles bass,
\* melody and chords give full_arrangement in every order.
PartOrderIndependent ==
    (ContentCase(1) /\ ContentCase(2)) =>
        /\ AnalysisIn(1).has_bass = AnalysisIn(2).has_bass
        /\ AnalysisIn(1).has_melody = AnalysisIn(2).has_melody
        /\ AnalysisIn(1).has_chords = AnalysisIn(2).has_chords
        /\ AnalysisIn(1).detected_type = AnalysisIn(2).detected_type
        /\ \A c \in Copies :
              {"bass", "melody", "chords"} \subseteq RolesIn(c) =>
                  AnalysisIn(c).detected_type = "full_arrangement"

PartOrderIndependentWitness ==
    /\ ContentCase(1) /\ ContentCase(2)
    /\ StreamOf(output[1]).parts # StreamOf(output[2]).parts
    /\ PartSetOf(1) = PartSetOf(2)
    /\ RolesIn(1) = {"bass", "melody", "chords"}
    /\ PartInfo(StreamOf(output[1]).parts[1]).role = "chords"
    /\ PartInfo(StreamOf(output[2]).parts[1]).role = "bass"
    /\ AnalysisIn(2).detected_type = "full_arrangement"

\* the content scorer got a payload that decodes and a mapping to compare with
ContentScored(c) ==
    /\ Done(c) /\ fn[c] = "content"
    /\ DecodesOk(output[c])
    /\ expected[c].ismap
\* the expected type as the claims read it: the content_type entry, or
\* "chords" when there is none
ExpectedTypeOf(c) ==
    IF "content_type" \in DOMAIN expected[c].items
    THEN expected[c].items["content_type"]
    ELSE PyStr(<<"chords">>)
DetectedTypeOf(c) == TypeName(analyze_content_type(StreamOf(output[c])).detected_type)
Requested(c, t) == ExpectedTypeOf(c) = PyStr(<<t>>)
Detected(c, t) == DetectedTypeOf(c) = PyStr(<<t>>)
\* more content than requested
IsUpgrade(c) ==
    \/ Requested(c, "chords") /\ (Detected(c, "chords_and_melody") \/ Detected(c, "full_arrangement"))
    \/ Requested(c, "chords_and_melody") /\ Detected(c, "full_arrangement")

\* C13: more content than requested is acceptable: chords requested and
\* chords_and_melody or full_arrangement detected, or chords_and_melody
\* requested and full_arrangement detected, scores 0.9.
UpgradePathScore ==
    \A c \in Copies :
        (ContentScored(c) /\ IsUpgrade(c)) =>
            ScoreIs(result[c], Tenths(9)) /\ HasReason(result[c])

UpgradePathScoreWitness ==
    /\ ContentScored(1)
    /\ Requested(1, "chords_and_melody") /\ Detected(1, "full_arrangement")
    /\ ScoreIs(result[1], Tenths(9))

\* C14 as stated: chords requested and chords_and_melody or
\* full_arrangement detected scores 0.7, by the first entry of the
\* partial-credit table.
FirstTableEntryApplies ==
    \A c \in Copies :
        (ContentScored(c) /\ Requested(c, "chords")
         /\ (Detected(c, "chords_and_melody") \/ Detected(c, "full_arrangement"))) =>
            ScoreIs(result[c], Tenths(7))

\* C14, amended: chords requested and chords_and_melody or
\* full_arrangement detected never scores 0.7: the upgrade path returns 0.9
\* with its reason before the partial-credit table is consulted.
FirstTableEntryShadowed ==
    \A c \in Copies :
        (ContentScored(c) /\ Requested(c, "chords")
         /\ (Detected(c, "chords_and_melody") \/ Detected(c, "full_arrangement"))) =>
            /\ ~ScoreIs(result[c], Tenths(7))
            /\ ScoreIs(result[c], Tenths(9))
            /\ result[c].reason = <<"More content than requested (acceptable)">>

FirstTableEntryShadowedWitness ==
    /\ ContentScored(1)
    /\ "content_type" \in DOMAIN expected[1].items
    /\ Requested(1, "chords") /\ Detected(1, "full_arrangement")
    /\ ScoreIs(result[1], Tenths(9))

\* C15: less content than requested: chords_and_melody requested and chords
\* detected scores 0.5, full_arrangement requested and chords_and_melody
\* detected scores 0.7, and every other pair that is neither equal nor an
\* upgrade scores 0.0.
UnderDeliveryTable ==
    \A c \in Copies :
        (ContentScored(c) /\ DetectedTypeOf(c) # ExpectedTypeOf(c) /\ ~IsUpgrade(c)) =>
            IF Requested(c, "chords_and_melody") /\ Detected(c, "chords")
            THEN ScoreIs(result[c], Tenths(5))
            ELSE IF Requested(c, "full_arrangement") /\ Detected(c, "chords_and_melody")
            THEN ScoreIs(result[c], Tenths(7))
            ELSE ScoreIs(result[c], Tenths(0))

UnderDeliveryTableWitness ==
    /\ ContentScored(1)
    /\ Requested(1, "full_arrangement") /\ Detected(1, "chords_and_melody")
    /\ ScoreIs(result[1], Tenths(7))

\* C16: the content score is 1.0 exactly when the detected type equals the
\* expected content_type ("chords" when none is given).
ExactMatchOnly ==
    \A c \in Copies :
        ContentScored(c) =>
            (ScoreIs(result[c], Tenths(10)) <=> DetectedTypeOf(c) = ExpectedTypeOf(c))

ExactMatchOnlyWitness ==
    /\ ContentScored(1)
    /\ "content_type" \notin DOMAIN expected[1].items
    /\ Detected(1, "chords")
    /\ ScoreIs(result[1], Tenths(10))

\* the fields every result of a scorer is to carry
ContractFields(f) ==
    CASE f = "chord" -> {"score", "chords_found"}
      [] f = "key" -> {"score", "detected_key", "expected_key"}
      [] f = "content" -> {"score", "detected_type", "expected_type", "analysis"}

\* C17: on every return path the result carries score; a chord result
\* carries chords_found, a key result detected_key and expected_key, a
\* content result detected_type, expected_type and analysis.
ResultFieldContract ==
    \A c \in Copies :
        (Done(c) /\ escaped[c] = "") => ContractFields(fn[c]) \subseteq DOMAIN result[c]

\* the content scorer analysed a score of one part with a pitched note
OnePartCase(c) ==
    /\ ContentCase(c)
    /\ Len(StreamOf(output[c]).parts) = 1
    /\ NotePitches(StreamOf(output[c]).parts[1]) # << >>
OnlyPart(c) == StreamOf(output[c]).parts[1]
\* two or more pitches sound together somewhere in the part
HasSimultaneity(part) ==
    \E i \in 1..Len(part.elements) :
        Len(PitchesAt(part.elements, part.elements[i].offset)) >= 2
\* the role the claim gives a part: by the mean of its note pitches, and in
\* the middle range by whether pitches sound together
RoleClaimed(part) ==
    LET pitches == NotePitches(part)
    IN  IF SumSeq(pitches) < 48 * Len(pitches) THEN "bass"
        ELSE IF SumSeq(pitches) > 72 * Len(pitches) THEN "melody"
        ELSE IF HasSimultaneity(part) THEN "chords"
        ELSE "melody"
RoleRecorded(c) ==
    IF "role" \in DOMAIN AnalysisIn(c).parts_info[1]
    THEN AnalysisIn(c).parts_info[1].role ELSE ""
FlagsSet(c) ==
    {f \in {"has_bass", "has_melody", "has_chords"} : AnalysisIn(c)[f]}

\* C19: a part with a pitched note has role bass when its mean pitch is
\* below 48 and melody when it is above 72; otherwise (48 and 72 included)
\* its role is chords when its vertical slices contain a chord of two or
\* more simultaneous pitches and melody when they do not; it sets exactly
\* the flag of its role.
RoleThresholds ==
    \A c \in Copies :
        OnePartCase(c) =>
            /\ RoleRecorded(c) = RoleClaimed(OnlyPart(c))
            /\ FlagsSet(c) = {CASE RoleRecorded(c) = "bass" -> "has_bass"
                                [] RoleRecorded(c) = "melody" -> "has_melody"
                                [] RoleRecorded(c) = "chords" -> "has_chords"
                                [] OTHER -> "none"}

\* C20: in every recorded part, avg_pitch and pitch_range are null exactly
\* when notes_count is 0, and the part carries a role among bass, melody,
\* chords and unknown; so a part made of chord events only has a positive
\* notes_count, statistics that are not null, and a role.
PartAnalysisInvariant ==
    \A c \in Copies :
        ContentCase(c) =>
            \A i \in 1..Len(AnalysisIn(c).parts_info) :
                LET info == AnalysisIn(c).parts_info[i]
                IN  /\ (info.avg_pitch = PyNone) <=> (info.notes_count = 0)
                    /\ (info.pitch_range = PyNone) <=> (info.notes_count = 0)
                    /\ "role" \in DOMAIN info
                    /\ info.role \in {"bass", "melody", "chords", "unknown"}

\* the list extract_chords returned to the chord scorer: the result's chords
\* entry, and the empty list when the result reports no chords
ExtractCase(c) ==
    /\ Done(c) /\ fn[c] = "chord"
    /\ DecodesOk(output[c])
    /\ fault[c] = ""
ChordsReturned(c) == IF "chords" \in DOMAIN result[c] THEN result[c].chords ELSE << >>
\* the explicit chord events of the flattened timeline
ExplicitChords(c) == SelectCls(Flatten(StreamOf(output[c]).parts), "Chord")
RECURSIVE CountChordEvents(_)
CountChordEvents(elements) ==
    IF elements = << >> THEN 0
    ELSE (IF Head(elements).cls = "Chord" THEN 1 ELSE 0) + CountChordEvents(Tail(elements))
RECURSIVE CountChordEventsIn(_)
CountChordEventsIn(parts) ==
    IF parts = << >> THEN 0
    ELSE CountChordEvents(Head(parts).elements) + CountChordEventsIn(Tail(parts))

\* C21: when the flattened timeline has an explicit chord event, the list
\* returned has exactly one entry per explicit chord event, in timeline
\* order, each with that event's offset, name and pitches, and no entry
\* synthesized from a vertical slice.
ExplicitChordsOnly ==
    \A c \in Copies :
        (ExtractCase(c) /\ CountChordEventsIn(StreamOf(output[c]).parts) > 0) =>
            /\ Len(ChordsReturned(c)) = CountChordEventsIn(StreamOf(output[c]).parts)
            /\ \A i \in 1..Len(ChordsReturned(c)) :
                  /\ ChordsReturned(c)[i].beat = ExplicitChords(c)[i].offset
                  /\ ChordsReturned(c)[i].chord_symbol = ExplicitChords(c)[i].symbol
                  /\ ChordsReturned(c)[i].notes = ExplicitChords(c)[i].pitches
            /\ \A i, j \in 1..Len(ChordsReturned(c)) :
                  i < j => ChordsReturned(c)[i].beat <= ChordsReturned(c)[j].beat

\* a chord inserted late in the second part comes first in the list, and the
\* notes sounding with the chords add nothing
ExplicitChordsOnlyWitness ==
    /\ ExtractCase(1)
    /\ StreamOf(output[1]).parts[1].elements = <<Seventh(1), Note(0, 60)>>
    /\ StreamOf(output[1]).parts[2].elements = <<Note(1, 62), Triad(0)>>
    /\ Len(ChordsReturned(1)) = 2
    /\ ChordsReturned(1)[1].chord_symbol = SYM_TRIAD
    /\ ChordsReturned(1)[2].chord_symbol = SYM_SEVENTH

\* C22: with no explicit chord event, the list returned has an entry only
\* for a vertical slice of two or more simultaneous pitches: every entry
\* has at least two notes, and a score with no events gives the empty list
\* without an error.
FallbackNeedsTwoPitches ==
    \A c \in Copies :
        (/\ Done(c) /\ fn[c] = "chord" /\ DecodesOk(output[c])
         /\ CountChordEventsIn(StreamOf(output[c]).parts) = 0) =>
            /\ fault[c] = ""
            /\ \A i \in 1..Len(ChordsReturned(c)) : Len(ChordsReturned(c)[i].notes) >= 2
            /\ Flatten(StreamOf(output[c]).parts) = << >> => ChordsReturned(c) = << >>

\* C23: when the payload decodes and no chord is extracted, the chord
\* scorer returns score 0.0, chords_found 0 and the reason for no chords
\* from its normal path, with no exception raised inside it, whatever
\* min_chords (0 included) and requires_7ths are.
ZeroChordsNormalResult ==
    \A c \in Copies :
        (/\ Done(c) /\ fn[c] = "chord" /\ DecodesOk(output[c])
         /\ expected[c].ismap
         /\ ChordsOf(output[c]) = << >>) =>
            /\ fault[c] = "" /\ escaped[c] = ""
            /\ ScoreIs(result[c], Tenths(0))
            /\ result[c].chords_found = 0
            /\ result[c].reason = <<"No chords detected">>

ZeroChordsNormalResultWitness ==
    /\ ChordCase(1)
    /\ ChordsOf(output[1]) = << >>
    /\ "min_chords" \in DOMAIN expected[1].items /\ MinChordsOf(expected[1]) = 0
    /\ RequiresSevenths(expected[1])
    /\ ScoreIs(result[1], Tenths(0))
    /\ result[1].reason = <<"No chords detected">>

\* two spellings of one tonic name: the same letter in either case and with
\* or without blanks, or the same letter with the same accidental in ASCII,
\* word or glyph form
SameTonicName(a, b) ==
    \/ \E l \in TonicLetters : a \in LetterForms(l) /\ b \in LetterForms(l)
    \/ \E l \in SpelledLetters :
          \/ a \in SharpForms(l) /\ b \in SharpForms(l)
          \/ a \in FlatForms(l) /\ b \in FlatForms(l)

\* C24: keys_match is true of any two spellings of the same tonic name:
\* lower and upper case of a letter A..G ("b" and "B" included), blanks
\* inside or around the name, and the ASCII, word and glyph form of an
\* accidental.
SpellingInsensitive ==
    (kpc = "done" /\ SameTonicName(ka, kb)) => (kab /\ kba)

\* C25: for one chord list with at least one chord and one min_chords, the
\* score with requires_7ths true (copy 1) is at most the score with
\* requires_7ths false (copy 2).
SeventhsNeverRaise ==
    (/\ ChordCase(1) /\ ChordCase(2)
     /\ output[1] = output[2]
     /\ MinChordsOf(expected[1]) = MinChordsOf(expected[2])
     /\ RequiresSevenths(expected[1]) /\ ~RequiresSevenths(expected[2])
     /\ Len(ChordsOf(output[1])) >= 1) =>
        FracLeq(result[1].score, result[2].score)

\* the division of line 108 was evaluated: it faulted, or its quotient is
\* the score of a result that reports min_required
DivisionReached(c) ==
    \/ fault[c] = "division by zero"
    \/ "min_required" \in DOMAIN result[c] /\ ~ScoreIs(result[c], Tenths(10))

\* C26: for an integer min_chords >= 0 the division count / min_chords is
\* evaluated only when 0 < count < min_chords, so it never faults; with
\* min_chords = 0 a non-empty chord list scores 1.0 unless the sevenths
\* requirement fails.
DivisionGuarded ==
    \A c \in Copies :
        (ChordCase(c) /\ MinChordsOf(expected[c]) >= 0) =>
            LET count == Len(ChordsOf(output[c]))
                min_chords == MinChordsOf(expected[c])
            IN  /\ fault[c] # "division by zero"
                /\ DivisionReached(c) => (0 < count /\ count < min_chords)
                /\ (min_chords = 0 /\ count >= 1 /\ ~SeventhsFail(c)) =>
                      (fault[c] = "" /\ ScoreIs(result[c], Tenths(10)))

DivisionGuardedWitness ==
    /\ ChordCase(1)
    /\ "min_chords" \in DOMAIN expected[1].items /\ MinChordsOf(expected[1]) = 0
    /\ Len(ChordsOf(output[1])) >= 1
    /\ ~SeventhsFail(1)
    /\ fault[1] = ""
    /\ ScoreIs(result[1], Tenths(10))
====
